---- MODULE Spec2Model ----
(***************************************************************************)
(* The two plotting scripts of Real-Hourly-Wages-Change as one state       *)
(* machine.  A run is one execution of one script, top to bottom:          *)
(*   OECD_hourly_wages_barchart.py  (script = "barchart")                  *)
(*   OECD_hourly_wages_map.py       (script = "map")                       *)
(* The environment of a run is the content of the MySQL table              *)
(* oecd_hw_change (db) and, for the map, the Natural Earth files (ne).     *)
(*                                                                         *)
(* Units.  Wages are whole cents (12.04 USD is 1204); percentage changes   *)
(* are tenths of a percent (72.4 % is 724); areas are hundredths of a      *)
(* square degree (0.10 is 10).  A geometry is the set of grid cells it     *)
(* covers; the cells lie on a line and cells c, c+1 touch.                 *)
(***************************************************************************)
EXTENDS Integers, Sequences, FiniteSets

VARIABLES
    script,          \* which script this run executes
    pc,              \* the statement the run is about to execute
    db,              \* rows of table oecd_hw_change, in the order MySQL returns them
    ne,              \* Natural Earth: what each cell of the Black Sea strip is
    df,              \* barchart.py / map.py: df
    df_2007_sorted,  \* barchart.py: df_2007_sorted
    df_2024_sorted,  \* barchart.py: df_2024_sorted
    bars1,           \* barchart.py: the rectangles ax1.barh returned
    bars2,           \* barchart.py: the rectangles ax2.barh returned
    texts1,          \* barchart.py: the ax1.text labels
    texts2,          \* barchart.py: the ax2.text labels
    world,           \* map.py: world
    europe,          \* map.py: europe
    df_mrg,          \* map.py: df_mrg
    crimea,          \* map.py: crimea
    drawn,           \* map.py: one patch per row df_mrg.plot drew
    boxes,           \* map.py: the fig.text summary boxes
    saves            \* number of plt.savefig calls so far

vars == <<script, pc, db, ne, df, df_2007_sorted, df_2024_sorted, bars1, bars2,
          texts1, texts2, world, europe, df_mrg, crimea, drawn, boxes, saves>>

barVars == <<df_2007_sorted, df_2024_sorted, bars1, bars2, texts1, texts2>>
mapVars == <<world, europe, df_mrg, crimea, drawn, boxes>>

----------------------------------------------------------------------------
(* Bounds of the model. *)

\* the table holds at most MaxRows rows
MaxRows == 3
\* the strip of cells Russia, Crimea and the sea are laid out on is 1..NCells
NCells == 3

----------------------------------------------------------------------------
(* Sequence helpers. *)

Range(s) == {s[i] : i \in DOMAIN s}

RECURSIVE Filter(_, _)
\* the rows of frame s whose index is in keep, in their order (boolean-mask indexing)
Filter(s, keep) ==
    IF s = <<>> THEN <<>>
    ELSE LET rest == Filter(Tail(s), {i - 1 : i \in keep \ {1}})
         IN IF 1 \in keep THEN <<Head(s)>> \o rest ELSE rest

\* the sequences that hold the elements of s, each as often as s does
Permutations(s) ==
    {[i \in DOMAIN s |-> s[p[i]]] :
        p \in {q \in [DOMAIN s -> DOMAIN s] : \A i, j \in DOMAIN s : q[i] = q[j] => i = j}}

----------------------------------------------------------------------------
(* The environment: table oecd_hw_change. *)

\* the countries a row of the table may be about, in the order the table stores them
CountryOrder == <<"Japan", "Bulgaria", "OECD", "Latvia">>

\* the values a row may carry: hw_2007, hw_2024 in cents, the change in tenths of a percent
WageProfiles ==
    { [hw_2007 |-> 1000, hw_2024 |-> 1600, pct_change_2007_2024 |-> 600],
      [hw_2007 |-> 1204, hw_2024 |-> 1003, pct_change_2007_2024 |-> -167],
      [hw_2007 |-> 1000, hw_2024 |-> 1000, pct_change_2007_2024 |-> 0],
      [hw_2007 |-> 2000, hw_2024 |-> 3448, pct_change_2007_2024 |-> 724] }

\* a row of the table
Row(c, w) ==
    [country |-> c, hw_2007 |-> w.hw_2007, hw_2024 |-> w.hw_2024,
     pct_change_2007_2024 |-> w.pct_change_2007_2024]

\* the tables: at most MaxRows rows, one row per country
Tables ==
    {Filter([i \in DOMAIN CountryOrder |-> Row(CountryOrder[i], f[i])], S) :
        S \in {T \in SUBSET DOMAIN CountryOrder : Cardinality(T) <= MaxRows},
        f \in [DOMAIN CountryOrder -> WageProfiles]}

\* the cells of the strip the Natural Earth files describe
Cells == 1..NCells

\* a cell is Russian mainland, Russian-administered Crimea, or sea
Geographies == [Cells -> {"russia", "crimea", "sea"}]

----------------------------------------------------------------------------
(* OECD_hourly_wages_barchart.py *)

not_in_usd == {"Bulgaria", "Romania", "Croatia"}

\* the filter with its negation lost: df[df['country'].isin(not_in_usd)]
ExcludeNotInUsd_Inverted(d) == Filter(d, {i \in DOMAIN d : d[i].country \in not_in_usd})

\* line 65: df[~df['country'].isin(not_in_usd)]
ExcludeNotInUsd(d) == Filter(d, {i \in DOMAIN d : d[i].country \notin not_in_usd})

\* line 68: df.replace("OECD", "OECD average") on one cell; the cells that can hold
\* the string are those of column country
ReplaceCell(v) == IF v = "OECD" THEN "OECD average" ELSE v

\* line 68
ReplaceOECD(d) == [i \in DOMAIN d |-> [d[i] EXCEPT !.country = ReplaceCell(@)]]

\* DataFrame.sort_values(col): the rows in ascending order of col; the order of
\* rows with equal values is not fixed by the (unstable) default sort
SortValues(d, col) ==
    {s \in Permutations(d) : \A i, j \in DOMAIN s : i < j => s[i][col] <= s[j][col]}

\* the right panel sorted by the left panel's column
SortBy2024_WrongColumn(d) == SortValues(d, "hw_2007")

\* line 83
SortBy2007(d) == SortValues(d, "hw_2007")

\* line 84
SortBy2024(d) == SortValues(d, "hw_2024")

\* the position of a string on a categorical axis: the number of distinct strings
\* before its first occurrence
CategoryPos(labels, i) ==
    LET first == CHOOSE k \in DOMAIN labels :
                     /\ labels[k] = labels[i]
                     /\ \A m \in DOMAIN labels : labels[m] = labels[i] => k <= m
    IN Cardinality({labels[m] : m \in {n \in DOMAIN labels : n < first}})

\* Axes.barh(y, width): one rectangle per element, at y's place on the axis
Barh(d, col) ==
    [i \in DOMAIN d |->
        [country |-> d[i].country,
         y       |-> CategoryPos([k \in DOMAIN d |-> d[k].country], i),
         width   |-> d[i][col]]]

\* f'{width:.1f}': cents to tenths of a dollar, to the nearest, ties to even
Format1f(cents) ==
    LET q == cents \div 10
        r == cents % 10
    IN IF r > 5 \/ (r = 5 /\ q % 2 = 1) THEN q + 1 ELSE q

\* lines 101-104, 115-118: a text per rectangle, at the rectangle's height
BarLabels(bars) == [i \in DOMAIN bars |-> [y |-> bars[i].y, s |-> Format1f(bars[i].width)]]

----------------------------------------------------------------------------
(* Statements shared by the two scripts. *)

\* lines 47-53 of either script: the connection test; a failure is printed and the
\* script carries on
TestConnection ==
    /\ pc = "connect"
    /\ pc' = "query"
    /\ UNCHANGED <<script, db, ne, df, barVars, mapVars, saves>>

\* lines 56-57 (barchart), 55-56 (map): df = pd.read_sql("SELECT * FROM oecd_hw_change")
ReadSql ==
    /\ pc = "query"
    /\ df' = db
    /\ pc' = IF script = "barchart" THEN "exclude" ELSE "load_world"
    /\ UNCHANGED <<script, db, ne, barVars, mapVars, saves>>

\* read_sql raises when the database cannot be reached: the script ends there
ReadSqlFails ==
    /\ pc = "query"
    /\ pc' = "aborted"
    /\ UNCHANGED <<script, db, ne, df, barVars, mapVars, saves>>

----------------------------------------------------------------------------
(* barchart.py, statement by statement. *)

BarExclude ==
    /\ script = "barchart" /\ pc = "exclude"
    /\ df' = ExcludeNotInUsd(df)
    /\ pc' = "replace"
    /\ UNCHANGED <<script, db, ne, barVars, mapVars, saves>>

BarReplace ==
    /\ script = "barchart" /\ pc = "replace"
    /\ df' = ReplaceOECD(df)
    /\ pc' = "subplots"
    /\ UNCHANGED <<script, db, ne, barVars, mapVars, saves>>

\* lines 75-80: the figure and its two empty axes
BarSubplots ==
    /\ script = "barchart" /\ pc = "subplots"
    /\ pc' = "sort"
    /\ UNCHANGED <<script, db, ne, df, barVars, mapVars, saves>>

\* lines 83-88
BarSort ==
    /\ script = "barchart" /\ pc = "sort"
    /\ df_2007_sorted' \in SortBy2007(df)
    /\ df_2024_sorted' \in SortBy2024(df)
    /\ pc' = "barh1"
    /\ UNCHANGED <<script, db, ne, df, bars1, bars2, texts1, texts2, mapVars, saves>>

\* lines 96-98
BarBarh1 ==
    /\ script = "barchart" /\ pc = "barh1"
    /\ bars1' = Barh(df_2007_sorted, "hw_2007")
    /\ pc' = "labels1"
    /\ UNCHANGED <<script, db, ne, df, df_2007_sorted, df_2024_sorted, bars2, texts1,
                   texts2, mapVars, saves>>

\* lines 101-104
BarLabels1 ==
    /\ script = "barchart" /\ pc = "labels1"
    /\ texts1' = BarLabels(bars1)
    /\ pc' = "barh2"
    /\ UNCHANGED <<script, db, ne, df, df_2007_sorted, df_2024_sorted, bars1, bars2,
                   texts2, mapVars, saves>>

\* lines 107-112
BarBarh2 ==
    /\ script = "barchart" /\ pc = "barh2"
    /\ bars2' = Barh(df_2024_sorted, "hw_2024")
    /\ pc' = "labels2"
    /\ UNCHANGED <<script, db, ne, df, df_2007_sorted, df_2024_sorted, bars1, texts1,
                   texts2, mapVars, saves>>

\* lines 115-154: the labels of the right panel, then spines, title, footnote, layout
BarLabels2 ==
    /\ script = "barchart" /\ pc = "labels2"
    /\ texts2' = BarLabels(bars2)
    /\ pc' = "savefig"
    /\ UNCHANGED <<script, db, ne, df, df_2007_sorted, df_2024_sorted, bars1, bars2,
                   texts1, mapVars, saves>>

\* lines 157-164
BarSavefig ==
    /\ script = "barchart" /\ pc = "savefig"
    /\ saves' = saves + 1
    /\ pc' = "show"
    /\ UNCHANGED <<script, db, ne, df, barVars, mapVars>>

\* line 166
BarShow ==
    /\ script = "barchart" /\ pc = "show"
    /\ pc' = "done"
    /\ UNCHANGED <<script, db, ne, df, barVars, mapVars, saves>>

----------------------------------------------------------------------------
(* OECD_hourly_wages_map.py: the data it loads and the operations it applies. *)

\* a missing value of a merged frame; a present value v is the cell {v}
NaN == {}

\* the geometry of Russia in ne_10m_admin_0_countries: mainland and Crimea
RussiaCells(g) == {c \in Cells : g[c] \in {"russia", "crimea"}}

\* lines 63-65: ne_10m_admin_0_countries
WorldFile(g) ==
    << [NAME |-> "Russia",   CONTINENT |-> "Europe", geometry |-> RussiaCells(g)],
       [NAME |-> "Ukraine",  CONTINENT |-> "Europe", geometry |-> {0}],
       [NAME |-> "Latvia",   CONTINENT |-> "Europe", geometry |-> {-1}],
       [NAME |-> "Bulgaria", CONTINENT |-> "Europe", geometry |-> {-2}],
       [NAME |-> "Japan",    CONTINENT |-> "Asia",   geometry |-> {-3}],
       [NAME |-> "Cyprus",   CONTINENT |-> "Asia",   geometry |-> {-7}] >>

\* lines 68-70: ne_10m_admin_0_disputed_areas
DisputedFile == << [NAME |-> "N. Cyprus", geometry |-> {-5}] >>

\* lines 124-126: ne_10m_admin_1_states_provinces
Admin1File(g) ==
    << [name_en |-> "Autonomous Republic of Crimea",
        geometry |-> {c \in Cells : g[c] = "crimea"}],
       [name_en |-> "Krasnodar", geometry |-> {c \in Cells : g[c] = "russia"}],
       [name_en |-> "Riga", geometry |-> {-1}] >>

\* line 129: str.contains('Crimea', case=False, na=False), on the names of Admin1File
ContainsCrimea(name) == name \in {"Autonomous Republic of Crimea"}

\* unary_union / union_all: the union of a collection of geometries
UnaryUnion(gs) == UNION gs

\* the rows of frame d whose column col is v, as .loc[d[col] == v, 'geometry']
GeometryOf(d, col, v) == {d[i].geometry : i \in {k \in DOMAIN d : d[k][col] = v}}

\* frame.loc[frame['NAME'] == name, 'geometry'] = g
SetGeometry(d, name, g) ==
    [i \in DOMAIN d |-> IF d[i].NAME = name THEN [d[i] EXCEPT !.geometry = g] ELSE d[i]]

\* lines 78-79: buffer(0.05) then buffer(-0.05) closes gaps narrower than a cell
Closing(g) == g \cup {c \in {d + 1 : d \in g} : c + 1 \in g}

\* lines 73-80
UniteCyprus(w, disputed) ==
    SetGeometry(w, "Cyprus",
        Closing(UnaryUnion(GeometryOf(w, "NAME", "Cyprus")
                           \cup GeometryOf(disputed, "NAME", "N. Cyprus"))))

\* lines 83-86 and 92
FilterEurope(w) ==
    LET kept == Filter(w, {i \in DOMAIN w :
                    \/ w[i].CONTINENT = "Europe"
                    \/ w[i].NAME \in {"Turkey", "Georgia", "Armenia", "Azerbaijan",
                                      "Cyprus", "Kazakhstan"}})
    IN [i \in DOMAIN kept |-> [NAME |-> kept[i].NAME, geometry |-> kept[i].geometry]]

\* line 89
DropOECD(d) == Filter(d, {i \in DOMAIN d : d[i].country # "OECD"})

\* line 105
SelectColumns(d) ==
    [i \in DOMAIN d |->
        [country |-> d[i].country, pct_change_2007_2024 |-> d[i].pct_change_2007_2024]]

\* the rows a right row r gives in a right join: one per matching left row, or one
\* with the left columns missing
RightRows(left, r) ==
    LET m == Filter(left, {i \in DOMAIN left : left[i].country = r.NAME})
    IN IF m = <<>>
       THEN << [country |-> NaN, pct_change_2007_2024 |-> NaN,
                NAME |-> r.NAME, geometry |-> r.geometry] >>
       ELSE [i \in DOMAIN m |->
                [country |-> {m[i].country},
                 pct_change_2007_2024 |-> {m[i].pct_change_2007_2024},
                 NAME |-> r.NAME, geometry |-> r.geometry]]

\* the join with how='inner': only the geography rows that have a wage row
MergeInner(left, right) ==
    LET hit == Filter(right, {k \in DOMAIN right :
                   \E i \in DOMAIN left : left[i].country = right[k].NAME})
    IN [k \in DOMAIN hit |->
           LET l == CHOOSE i \in DOMAIN left : left[i].country = hit[k].NAME
           IN [country |-> {left[l].country},
               pct_change_2007_2024 |-> {left[l].pct_change_2007_2024},
               NAME |-> hit[k].NAME, geometry |-> hit[k].geometry]]

RECURSIVE MergeRight(_, _)
\* lines 108-114: pd.merge(left, right, left_on='country', right_on='NAME', how='right')
MergeRight(left, right) ==
    IF right = <<>> THEN <<>>
    ELSE RightRows(left, Head(right)) \o MergeRight(left, Tail(right))

\* lines 129-136: the union of the admin-1 regions named Crimea
ExtractCrimea(admin1) ==
    UnaryUnion({admin1[i].geometry : i \in {k \in DOMAIN admin1 : ContainsCrimea(admin1[k].name_en)}})

\* lines 139-142: g.difference(crimea).buffer(0)
RemoveCrimea(g, cr) == g \ cr

\* Ukraine given Crimea in place of its own geometry
AddCrimea_Replace(g, cr) == cr

\* lines 144-147: g.union(crimea)
AddCrimea(g, cr) == g \cup cr

\* the area of a cell of the strip, in hundredths of a square degree
CellArea(c) == CASE c = 1 -> 11 [] c = 2 -> 1 [] c = 3 -> 10 [] OTHER -> 5

RECURSIVE Area(_)
\* geometry.area
Area(g) == IF g = {} THEN 0 ELSE LET c == CHOOSE x \in g : TRUE IN CellArea(c) + Area(g \ {c})

\* a geometry in one piece: a run of touching cells
Connected(p) == p # {} /\ \A a, b \in p : \A c \in a..b : c \in p

\* GeoSeries.explode: the polygons of a geometry, its maximal connected parts
Explode(g) ==
    {p \in SUBSET g : Connected(p) /\ \A c \in g \ p : ~Connected(p \cup {c})}

\* line 152
min_area == 10

\* the threshold taken inclusively: part.area >= min_area
LargeParts_Inclusive(parts) == {part \in parts : Area(part) >= min_area}

\* line 153
LargeParts(parts) == {part \in parts : Area(part) > min_area}

\* lines 150-154
CleanRussia(g) == UnaryUnion(LargeParts(Explode(g)))

\* line 162, without the two infinite outer edges
bins == <<0, 100, 200, 300, 400, 600>>

\* line 163
labels == <<"< 0%", "0-10%", "10-20%", "20-30%", "30-40%", "40-60%", "60%+">>

\* pd.cut(x, bins, labels, right=True, include_lowest=True): x is filed in the
\* interval (bins[k-1], bins[k]] it falls in, found as searchsorted(side='left')
Cut(x) == IF x = NaN THEN NaN
          ELSE LET v == CHOOSE u \in x : TRUE
               IN {labels[1 + Cardinality({k \in DOMAIN bins : bins[k] < v})]}

\* lines 166-172
AddChangeBins(d) ==
    [i \in DOMAIN d |->
        [country |-> d[i].country, pct_change_2007_2024 |-> d[i].pct_change_2007_2024,
         NAME |-> d[i].NAME, geometry |-> d[i].geometry,
         change_bins |-> Cut(d[i].pct_change_2007_2024)]]

\* lines 175-178
colors == <<"darksalmon", "YlGnBu0", "YlGnBu1", "YlGnBu2", "YlGnBu3", "YlGnBu4", "YlGnBu5">>

\* lines 191-201: a row is painted with the colour of its category's code, a row
\* without a category as missing_kwds says
PlotRow(r) ==
    IF r.change_bins = NaN
    THEN [NAME |-> r.NAME, geometry |-> r.geometry, color |-> "lightgrey", label |-> "No data"]
    ELSE LET l == CHOOSE u \in r.change_bins : TRUE
             code == CHOOSE k \in DOMAIN labels : labels[k] = l
         IN [NAME |-> r.NAME, geometry |-> r.geometry, color |-> colors[code], label |-> l]

Plot(d) == [i \in DOMAIN d |-> PlotRow(d[i])]

\* lines 231-262: the two summary boxes, as written in the script
SummaryBoxes ==
    [Highest |-> << [country |-> "Bulgaria", pct |-> 1552],
                    [country |-> "Romania", pct |-> 1423],
                    [country |-> "Latvia", pct |-> 724] >>,
     Lowest  |-> << [country |-> "Greece", pct |-> -167],
                    [country |-> "Italy", pct |-> -40],
                    [country |-> "Netherlands", pct |-> -9] >>]

----------------------------------------------------------------------------
(* map.py, statement by statement. *)

\* lines 63-70
MapLoadWorld ==
    /\ script = "map" /\ pc = "load_world"
    /\ world' = WorldFile(ne)
    /\ pc' = "cyprus"
    /\ UNCHANGED <<script, db, ne, df, barVars, europe, df_mrg, crimea, drawn, boxes, saves>>

\* gpd.read_file raises when the download fails: the script ends there
MapLoadFails ==
    /\ script = "map" /\ pc \in {"load_world", "load_admin1"}
    /\ pc' = "aborted"
    /\ UNCHANGED <<script, db, ne, df, barVars, mapVars, saves>>

\* lines 73-80
MapCyprus ==
    /\ script = "map" /\ pc = "cyprus"
    /\ world' = UniteCyprus(world, DisputedFile)
    /\ pc' = "europe"
    /\ UNCHANGED <<script, db, ne, df, barVars, europe, df_mrg, crimea, drawn, boxes, saves>>

\* lines 83-92
MapEurope ==
    /\ script = "map" /\ pc = "europe"
    /\ europe' = FilterEurope(world)
    /\ df' = DropOECD(df)
    /\ pc' = "merge"
    /\ UNCHANGED <<script, db, ne, barVars, world, df_mrg, crimea, drawn, boxes, saves>>

\* lines 99-117
MapMerge ==
    /\ script = "map" /\ pc = "merge"
    /\ df' = SelectColumns(df)
    /\ df_mrg' = MergeRight(SelectColumns(df), europe)
    /\ pc' = "load_admin1"
    /\ UNCHANGED <<script, db, ne, barVars, world, europe, crimea, drawn, boxes, saves>>

\* lines 124-136
MapLoadAdmin1 ==
    /\ script = "map" /\ pc = "load_admin1"
    /\ crimea' = ExtractCrimea(Admin1File(ne))
    /\ pc' = "crimea_russia"
    /\ UNCHANGED <<script, db, ne, df, barVars, world, europe, df_mrg, drawn, boxes, saves>>

\* lines 139-142
MapCrimeaFromRussia ==
    /\ script = "map" /\ pc = "crimea_russia"
    /\ df_mrg' = [i \in DOMAIN df_mrg |->
                    IF df_mrg[i].NAME = "Russia"
                    THEN [df_mrg[i] EXCEPT !.geometry = RemoveCrimea(@, crimea)]
                    ELSE df_mrg[i]]
    /\ pc' = "crimea_ukraine"
    /\ UNCHANGED <<script, db, ne, df, barVars, world, europe, crimea, drawn, boxes, saves>>

\* lines 144-147
MapCrimeaToUkraine ==
    /\ script = "map" /\ pc = "crimea_ukraine"
    /\ df_mrg' = [i \in DOMAIN df_mrg |->
                    IF df_mrg[i].NAME = "Ukraine"
                    THEN [df_mrg[i] EXCEPT !.geometry = AddCrimea(@, crimea)]
                    ELSE df_mrg[i]]
    /\ pc' = "clean_russia"
    /\ UNCHANGED <<script, db, ne, df, barVars, world, europe, crimea, drawn, boxes, saves>>

\* lines 150-155
MapCleanRussia ==
    /\ script = "map" /\ pc = "clean_russia"
    /\ df_mrg' = SetGeometry(df_mrg, "Russia",
                    CleanRussia(UnaryUnion(GeometryOf(df_mrg, "NAME", "Russia"))))
    /\ pc' = "cut"
    /\ UNCHANGED <<script, db, ne, df, barVars, world, europe, crimea, drawn, boxes, saves>>

\* lines 162-179
MapCut ==
    /\ script = "map" /\ pc = "cut"
    /\ df_mrg' = AddChangeBins(df_mrg)
    /\ pc' = "plot"
    /\ UNCHANGED <<script, db, ne, df, barVars, world, europe, crimea, drawn, boxes, saves>>

\* the figure saved as soon as the map is plotted, before the boxes are added
MapPlot_SavesEarly ==
    /\ script = "map" /\ pc = "plot"
    /\ drawn' = Plot(df_mrg)
    /\ saves' = saves + 1
    /\ pc' = "boxes"
    /\ UNCHANGED <<script, db, ne, df, barVars, world, europe, df_mrg, crimea, boxes>>

\* lines 186-224
MapPlot ==
    /\ script = "map" /\ pc = "plot"
    /\ drawn' = Plot(df_mrg)
    /\ pc' = "boxes"
    /\ UNCHANGED <<script, db, ne, df, barVars, world, europe, df_mrg, crimea, boxes, saves>>

\* lines 231-292
MapBoxes ==
    /\ script = "map" /\ pc = "boxes"
    /\ boxes' = SummaryBoxes
    /\ pc' = "savefig"
    /\ UNCHANGED <<script, db, ne, df, barVars, world, europe, df_mrg, crimea, drawn, saves>>

\* lines 296-302
MapSavefig ==
    /\ script = "map" /\ pc = "savefig"
    /\ saves' = saves + 1
    /\ pc' = "done"
    /\ UNCHANGED <<script, db, ne, df, barVars, mapVars>>

----------------------------------------------------------------------------

\* the state before the first statement: the table and the Natural Earth files are
\* as the run will find them; the bar chart reads no geography, so its runs are
\* enumerated over one
Init ==
    /\ script \in {"barchart", "map"}
    /\ pc = "connect"
    /\ db \in Tables
    /\ ne \in Geographies
    /\ script = "barchart" => ne = [c \in Cells |-> "sea"]
    /\ df = <<>>
    /\ df_2007_sorted = <<>> /\ df_2024_sorted = <<>>
    /\ bars1 = <<>> /\ bars2 = <<>> /\ texts1 = <<>> /\ texts2 = <<>>
    /\ world = <<>> /\ europe = <<>> /\ df_mrg = <<>>
    /\ crimea = {} /\ drawn = <<>> /\ boxes = <<>>
    /\ saves = 0

Next ==
    \/ TestConnection
    \/ ReadSql
    \/ ReadSqlFails
    \/ BarExclude
    \/ BarReplace
    \/ BarSubplots
    \/ BarSort
    \/ BarBarh1
    \/ BarLabels1
    \/ BarBarh2
    \/ BarLabels2
    \/ BarSavefig
    \/ BarShow
    \/ MapLoadWorld
    \/ MapLoadFails
    \/ MapCyprus
    \/ MapEurope
    \/ MapMerge
    \/ MapLoadAdmin1
    \/ MapCrimeaFromRussia
    \/ MapCrimeaToUkraine
    \/ MapCleanRussia
    \/ MapCut
    \/ MapPlot
    \/ MapBoxes
    \/ MapSavefig

Spec == Init /\ [][Next]_vars

----------------------------------------------------------------------------
(* The order of the statements of each script, top to bottom. *)

BarProgram ==
    <<"connect", "query", "exclude", "replace", "subplots", "sort", "barh1", "labels1",
      "barh2", "labels2", "savefig", "show", "done">>

MapProgram ==
    <<"connect", "query", "load_world", "cyprus", "europe", "merge", "load_admin1",
      "crimea_russia", "crimea_ukraine", "clean_russia", "cut", "plot", "boxes",
      "savefig", "done">>

Program == IF script = "barchart" THEN BarProgram ELSE MapProgram

\* the place of statement l in the running script; a run that has ended is past all
StepNo(l) ==
    IF \E k \in DOMAIN Program : Program[k] = l
    THEN CHOOSE k \in DOMAIN Program : Program[k] = l
    ELSE Len(Program) + 1

\* statement l of the running script has been executed
Executed(l) == StepNo(pc) > StepNo(l) /\ pc # "aborted"

\* the part of the script a statement belongs to, by the script's section headings:
\* 1 connect, 2 query, 3 reshape, 4 draw, 5 save, 6 after the save
Phase(l) ==
    CASE l = "connect" -> 1
      [] l = "query" -> 2
      [] l \in {"exclude", "replace", "subplots", "sort", "load_world", "cyprus", "europe",
                "merge", "load_admin1", "crimea_russia", "crimea_ukraine", "clean_russia",
                "cut"} -> 3
      [] l \in {"barh1", "labels1", "barh2", "labels2", "plot", "boxes"} -> 4
      [] l = "savefig" -> 5
      [] OTHER -> 6

----------------------------------------------------------------------------
(* C1: the filter of the bar chart. *)

\* the name a country of the table is drawn under
DisplayName(c) == IF c = "OECD" THEN "OECD average" ELSE c

\* the rows of the table that are not about Bulgaria, Romania or Croatia
UsdRows == {i \in DOMAIN db : db[i].country \notin {"Bulgaria", "Romania", "Croatia"}}

\* a panel holds one bar for each row of UsdRows, with that row's wage of the
\* panel's year, and no other bar
PanelIsUsdRows(bars, col) ==
    /\ Len(bars) = Cardinality(UsdRows)
    /\ \A k \in DOMAIN bars : bars[k].country \notin {"Bulgaria", "Romania", "Croatia"}
    /\ \A i \in UsdRows :
          Cardinality({k \in DOMAIN bars :
                          /\ bars[k].country = DisplayName(db[i].country)
                          /\ bars[k].width = db[i][col]}) = 1

\* C1: in the bar chart, the bars of the 2007 panel and those of the 2024 panel are
\* exactly the rows of the table whose country is not Bulgaria, Romania or Croatia:
\* no excluded country is drawn, and no other row is lost or drawn twice.
C1_PanelsAreFilteredRows ==
    script = "barchart" =>
        /\ Executed("barh1") => PanelIsUsdRows(bars1, "hw_2007")
        /\ Executed("barh2") => PanelIsUsdRows(bars2, "hw_2024")

\* a finished bar chart of a table that held Bulgaria and two other countries
C1_Witness ==
    /\ script = "barchart" /\ pc = "done"
    /\ \E i \in DOMAIN db : db[i].country = "Bulgaria"
    /\ Len(db) = 3 /\ Len(bars1) = 2 /\ Len(bars2) = 2

----------------------------------------------------------------------------
(* C2: the two panels are sorted independently. *)

IsPermutationOf(s, t) ==
    /\ Len(s) = Len(t)
    /\ \A x \in Range(s) \cup Range(t) :
          Cardinality({i \in DOMAIN s : s[i] = x}) = Cardinality({i \in DOMAIN t : t[i] = x})

\* the bars of a panel, bottom to top, carry non-decreasing wages of column col; a
\* bar's place is fixed by the wages of that column alone; each bar is as long as
\* the wage of the row of its country
PanelSortedBy(bars, col) ==
    /\ {bars[k].y : k \in DOMAIN bars} = 0..(Len(bars) - 1)
    /\ \A j, k \in DOMAIN bars : bars[j].y < bars[k].y => bars[j].width <= bars[k].width
    /\ \A k \in DOMAIN bars :
          /\ \E i \in DOMAIN df : df[i].country = bars[k].country /\ df[i][col] = bars[k].width
          /\ Cardinality({i \in DOMAIN df : df[i][col] < bars[k].width}) <= bars[k].y
          /\ bars[k].y < Cardinality({i \in DOMAIN df : df[i][col] <= bars[k].width})

\* each bar has one text, at the bar's height, that reads the bar's wage to one decimal
PanelLabelled(bars, texts) ==
    /\ Len(texts) = Len(bars)
    /\ \A k \in DOMAIN bars :
          /\ texts[k].y = bars[k].y
          /\ 10 * texts[k].s - bars[k].width \in -5..5

----------------------------------------------------------------------------
(* C3: the bins of the map. *)

\* the label whose text describes a change of v tenths of a percent
DescribingLabel(v) ==
    CASE v < 0 -> "< 0%"
      [] 0 <= v /\ v < 100 -> "0-10%"
      [] 100 <= v /\ v < 200 -> "10-20%"
      [] 200 <= v /\ v < 300 -> "20-30%"
      [] 300 <= v /\ v < 400 -> "30-40%"
      [] 400 <= v /\ v < 600 -> "40-60%"
      [] OTHER -> "60%+"

\* C3: in the map every country with a change value gets exactly one of the seven
\* bins, and the bin's label describes the value: "< 0%" exactly when the change is
\* below 0 (a change of exactly 0 is not "< 0%"), "60%+" when it is 60 or more.
C3_LabelDescribesValue ==
    (script = "map" /\ Executed("cut")) =>
        \A i \in DOMAIN df_mrg :
            df_mrg[i].pct_change_2007_2024 # NaN =>
                \E v \in df_mrg[i].pct_change_2007_2024 :
                    df_mrg[i].change_bins = {DescribingLabel(v)}

----------------------------------------------------------------------------
(* C4: the right join of wages and geography. *)

\* the rows of the table the map uses that are about the country called name
WageRows(name) == {i \in DOMAIN db : db[i].country = name /\ db[i].country # "OECD"}

\* C4: in the map every row of the filtered Europe geography is in the merged frame
\* exactly once; a geography row without a wage row has no change value and no bin
\* and is drawn light grey as "No data"; a wage row whose country matches no
\* geography row puts nothing on the map.
C4_RightJoinKeepsGeography ==
    (script = "map" /\ Executed("merge")) =>
        /\ Len(df_mrg) = Len(europe)
        /\ \A k \in DOMAIN europe :
              Cardinality({i \in DOMAIN df_mrg : df_mrg[i].NAME = europe[k].NAME}) = 1
        /\ \A i \in DOMAIN df_mrg :
              WageRows(df_mrg[i].NAME) = {} =>
                  /\ df_mrg[i].pct_change_2007_2024 = NaN
                  /\ Executed("cut") => df_mrg[i].change_bins = NaN
        /\ \A j \in DOMAIN db :
              (\A k \in DOMAIN europe : europe[k].NAME # db[j].country) =>
                  /\ \A i \in DOMAIN df_mrg : df_mrg[i].country # {db[j].country}
                  /\ \A i \in DOMAIN drawn : drawn[i].NAME # db[j].country
        /\ Executed("plot") =>
              /\ Len(drawn) = Len(europe)
              /\ \A k \in DOMAIN europe :
                    Cardinality({i \in DOMAIN drawn : drawn[i].NAME = europe[k].NAME}) = 1
              /\ \A i \in DOMAIN drawn :
                    WageRows(drawn[i].NAME) = {} =>
                        drawn[i].color = "lightgrey" /\ drawn[i].label = "No data"
              /\ \A i \in DOMAIN drawn :
                    WageRows(drawn[i].NAME) # {} => drawn[i].color # "lightgrey"

\* a finished map of a table with a country on the map (Latvia) and one off it (Japan)
C4_Witness ==
    /\ script = "map" /\ pc = "done"
    /\ \E j \in DOMAIN db : db[j].country = "Japan"
    /\ \E j \in DOMAIN db : db[j].country = "Latvia"
    /\ \E i \in DOMAIN drawn : drawn[i].NAME = "Latvia" /\ drawn[i].color # "lightgrey"
    /\ \E i \in DOMAIN drawn : drawn[i].NAME = "Russia" /\ drawn[i].color = "lightgrey"

----------------------------------------------------------------------------
(* C5: the summary boxes of the map. *)

\* line 1..3 of a box is the row of the loaded data ranked 1..3 by better(_, _)
BoxIsTopThree(box, better(_, _)) ==
    \A k \in 1..3 :
        k <= Len(db) =>
            \E i \in DOMAIN db :
                /\ box[k].country = db[i].country
                /\ box[k].pct = db[i].pct_change_2007_2024
                /\ Cardinality({j \in DOMAIN db :
                       better(db[j].pct_change_2007_2024, db[i].pct_change_2007_2024)}) < k

\* C5: for every table, the "Highest" box of the map prints the three rows with the
\* largest pct_change_2007_2024 of the loaded data and the "Lowest" box the three
\* with the smallest.
C5_BoxesShowExtremes ==
    (script = "map" /\ Executed("boxes")) =>
        /\ BoxIsTopThree(boxes.Highest, LAMBDA a, b : a > b)
        /\ BoxIsTopThree(boxes.Lowest, LAMBDA a, b : a < b)

----------------------------------------------------------------------------
(* C6: each script runs once, top to bottom. *)

\* everything the script draws from the data is on the figure
AllDrawn ==
    IF script = "barchart"
    THEN /\ Len(bars1) = Len(df) /\ Len(bars2) = Len(df)
         /\ Len(texts1) = Len(df) /\ Len(texts2) = Len(df)
         /\ Len(df) = Cardinality(UsdRows)
    ELSE /\ Len(drawn) = Len(europe) /\ Len(europe) > 0
         /\ boxes # <<>>

----------------------------------------------------------------------------
(* C7: Crimea moves from Russia to Ukraine. *)

\* the Crimea region of the Natural Earth admin-1 file
CrimeaRegion == {c \in Cells : ne[c] = "crimea"}

\* the geometry the geography frame holds for the country called name
EuropeGeometry(name) == UnaryUnion(GeometryOf(europe, "NAME", name))

\* the change value a merged row of the country called name holds
WageValue(name) ==
    {db[j].pct_change_2007_2024 : j \in WageRows(name)}

\* C7: after the Crimea adjustment of the map, Ukraine's geometry is its former
\* geometry united with the Crimea region, Russia's has nothing in common with
\* Crimea, and geometry and wage value of every other country are as before.
C7_CrimeaMovedToUkraine ==
    (script = "map" /\ Executed("crimea_ukraine")) =>
        \A i \in DOMAIN df_mrg :
            /\ df_mrg[i].NAME = "Ukraine" =>
                  /\ df_mrg[i].geometry = EuropeGeometry("Ukraine") \cup CrimeaRegion
                  /\ CrimeaRegion \subseteq df_mrg[i].geometry
            /\ df_mrg[i].NAME = "Russia" =>
                  /\ df_mrg[i].geometry \cap CrimeaRegion = {}
                  /\ df_mrg[i].geometry \subseteq EuropeGeometry("Russia")
            /\ df_mrg[i].NAME \notin {"Russia", "Ukraine"} =>
                  df_mrg[i].geometry = EuropeGeometry(df_mrg[i].NAME)
            /\ df_mrg[i].pct_change_2007_2024 = WageValue(df_mrg[i].NAME)

\* a finished map whose Crimea was Russian in the files and is Ukrainian on the map
C7_Witness ==
    /\ script = "map" /\ pc = "done"
    /\ CrimeaRegion # {} /\ CrimeaRegion \subseteq EuropeGeometry("Russia")
    /\ \E i \in DOMAIN df_mrg :
          df_mrg[i].NAME = "Ukraine" /\ CrimeaRegion \subseteq df_mrg[i].geometry
    /\ \E i \in DOMAIN df_mrg : df_mrg[i].NAME = "Latvia" /\ df_mrg[i].pct_change_2007_2024 # NaN

----------------------------------------------------------------------------
(* C8: the clean-up of Russia. *)

\* the geometry a frame holds for Russia
RussiaOf(d) == UnaryUnion(GeometryOf(d, "NAME", "Russia"))

\* C8: the clean-up of Russia runs after Crimea has been removed and keeps exactly
\* the connected parts of Russia whose area is above 0.10: a part of area at most
\* 0.10 is dropped, a part above it is kept unchanged, and no other country's
\* geometry is altered.
C8_RussiaCleanUp ==
    [][ (script = "map" /\ pc = "clean_russia") =>
           /\ RussiaOf(df_mrg) \cap CrimeaRegion = {}
           /\ \A part \in Explode(RussiaOf(df_mrg)) :
                 /\ Area(part) <= 10 => part \cap RussiaOf(df_mrg') = {}
                 /\ Area(part) > 10 => part \in Explode(RussiaOf(df_mrg'))
           /\ RussiaOf(df_mrg') \subseteq RussiaOf(df_mrg)
           /\ Len(df_mrg') = Len(df_mrg)
           /\ \A i \in DOMAIN df_mrg :
                 df_mrg[i].NAME # "Russia" => df_mrg'[i] = df_mrg[i] ]_vars

\* Russia after the clean-up: a part was kept and a part was dropped
C8_Witness ==
    /\ script = "map" /\ pc = "cut"
    /\ RussiaOf(df_mrg) # {}
    /\ RussiaOf(df_mrg) # EuropeGeometry("Russia") \ CrimeaRegion
    /\ \E c \in EuropeGeometry("Russia") \ (CrimeaRegion \cup RussiaOf(df_mrg)) :
          Area({c}) = 10

====
